---- MODULE Spec2Model ----
(***************************************************************************)
(* A model of datashape/coretypes.py: the type registry, the monotype      *)
(* constructors, laundering, equality and hashing.                         *)
(*                                                                         *)
(* Python values are records with a "tag" field.  Every other field of a   *)
(* value holds a Python value again (or a sequence of them), so that two   *)
(* values can always be compared.  Calls return an outcome: a returned     *)
(* value or a raised exception, together with the registry they leave.     *)
(***************************************************************************)
EXTENDS Integers, Sequences, FiniteSets, TLC

VARIABLES registry, call, ret, first

vars == <<registry, call, ret, first>>

(***************************************************************************)
(* Bounds of the model.                                                    *)
(***************************************************************************)
MaxInt == 2
MaxLen == 2

(***************************************************************************)
(* Python values that are not type nodes.                                  *)
(***************************************************************************)
None == [tag |-> "None"]
PyInt(n) == [tag |-> "int", ival |-> n]
PyStr(s) == [tag |-> "str", sval |-> s]
PyBool(b) == [tag |-> "bool", bval |-> b]
PyTuple(s) == [tag |-> "tuple", items |-> s]

\* isinstance(x, _inttypes), isinstance(x, _strtypes)
IsInt(x) == x.tag = "int"
IsStr(x) == x.tag = "str"

(***************************************************************************)
(* Outcomes of a call.                                                     *)
(***************************************************************************)
Return(v) == [st |-> "ok", val |-> v]
Throw(e) == [st |-> "raise", exc |-> e]
Ok(v, reg) == [st |-> "ok", val |-> v, reg |-> reg]
Raise(e, reg) == [st |-> "raise", exc |-> e, reg |-> reg]
Outcome(r) == IF r.st = "ok" THEN [st |-> "ok", val |-> r.val]
              ELSE [st |-> "raise", exc |-> r.exc]

DIMENSION == 1
MEASURE == 2

(***************************************************************************)
(* Type.register and Type.lookup_type.                                     *)
(***************************************************************************)
Bind(reg, name, v) == [n \in DOMAIN reg \cup {name} |-> IF n = name THEN v ELSE reg[n]]

\* register without the test for an existing binding
register_clobber(name, type, reg) == Ok(None, Bind(reg, name, type))

register(name, type, reg) ==
    IF name \in DOMAIN reg
    THEN Raise("TypeError", reg)
    ELSE Ok(None, Bind(reg, name, type))

lookup_type(name, reg) ==
    IF name \in DOMAIN reg THEN Return(reg[name]) ELSE Throw("KeyError")

(***************************************************************************)
(* Unit types.                                                             *)
(***************************************************************************)
Ellipsis(typevar) == Return([tag |-> "Ellipsis", typevar |-> typevar])

Null == Return([tag |-> "Null", _parameters |-> PyTuple(<<>>)])

IntegerConstant(i) ==
    IF ~IsInt(i) THEN Throw("AssertionError")
    ELSE Return([tag |-> "IntegerConstant", val |-> i])

StringConstant(i) ==
    IF ~IsStr(i) THEN Throw("AssertionError")
    ELSE Return([tag |-> "StringConstant", val |-> i])

Date == Return([tag |-> "Date"])

Time(tz) ==
    IF tz # None /\ ~IsStr(tz) THEN Throw("ValueError")
    ELSE Return([tag |-> "Time", tz |-> tz])

DateTime(tz) ==
    IF tz # None /\ ~IsStr(tz) THEN Throw("ValueError")
    ELSE Return([tag |-> "DateTime", tz |-> tz])

Bytes == Return([tag |-> "Bytes"])

JSON == Return([tag |-> "JSON"])

Var == Return([tag |-> "Var"])

\* operator.index(i): an int is its own index, a Fixed answers __index__
HasIndex(i) == i.tag \in {"int", "Fixed"}
Index(i) == IF i.tag = "int" THEN i.ival ELSE i.val.ival

Fixed(i) ==
    IF ~HasIndex(i) THEN Throw("TypeError")
    ELSE IF Index(i) < 0 THEN Throw("ValueError")
    ELSE Return([tag |-> "Fixed", val |-> PyInt(Index(i))])

\* symbol[0] of the symbols the model draws
FirstChar(s) ==
    CASE s = "A" -> "A"
      [] s = "B" -> "B"
      [] s = "I0" -> "I"
      [] s \in {"i" \o ToString(n) : n \in 0..(MaxLen + 1)} -> "i"
      [] s = "a" -> "a"
      [] OTHER -> ""

UpperCase == {"A", "B", "I"}

TypeVar(symbol) ==
    IF ~IsStr(symbol) THEN Throw("TypeError")
    ELSE IF symbol.sval = "" THEN Throw("IndexError")
    ELSE IF FirstChar(symbol.sval) \notin UpperCase THEN Throw("ValueError")
    ELSE Return([tag |-> "TypeVar", symbol |-> symbol])

_canonical_string_encodings ==
    [e \in {"A", "ascii", "U8", "utf-8", "utf_8", "utf8", "U16", "utf-16",
            "utf_16", "utf16", "U32", "utf-32", "utf_32", "utf32"} |->
        CASE e \in {"A", "ascii"} -> "A"
          [] e \in {"U8", "utf-8", "utf_8", "utf8"} -> "U8"
          [] e \in {"U16", "utf-16", "utf_16", "utf16"} -> "U16"
          [] e \in {"U32", "utf-32", "utf_32", "utf32"} -> "U32"]

\* the branches of String.__init__ that assign fixlen and encoding
IsLen(x) == x.tag \in {"int", "IntegerConstant"}
IsEnc(x) == x.tag \in {"str", "StringConstant"}
LenOf(x) == IF x.tag = "IntegerConstant" THEN x.val ELSE x
EncOf(x) == IF x.tag = "StringConstant" THEN x.val ELSE x

StringArgs(fixlen, encoding) ==
    IF fixlen = None /\ encoding = None
    THEN Return(<<None, PyStr("U8")>>)
    ELSE IF IsLen(fixlen) /\ encoding = None
    THEN Return(<<LenOf(fixlen), PyStr("U8")>>)
    ELSE IF IsEnc(fixlen) /\ encoding = None
    THEN Return(<<None, EncOf(fixlen)>>)
    ELSE IF IsLen(fixlen) /\ IsEnc(encoding)
    THEN Return(<<LenOf(fixlen), EncOf(encoding)>>)
    ELSE Throw("ValueError")

String(fixlen, encoding) ==
    LET a == StringArgs(fixlen, encoding) IN
    IF a.st = "raise" THEN a
    ELSE IF a.val[2].sval \notin DOMAIN _canonical_string_encodings
    THEN Throw("ValueError")
    ELSE Return([tag |-> "String", fixlen |-> a.val[1],
                 encoding |-> PyStr(_canonical_string_encodings[a.val[2].sval])])

CType(name, itemsize, alignment, reg) ==
    LET self == [tag |-> "CType", name |-> name, _itemsize |-> itemsize,
                 _alignment |-> alignment]
        r == register(name.sval, self, reg)
    IN IF r.st = "raise" THEN r ELSE Ok(self, r.reg)

(***************************************************************************)
(* Laundering and the composite types.                                     *)
(***************************************************************************)
Min(S) == CHOOSE i \in S : \A j \in S : i <= j

\* _launder without the unwrapping of a one-element DataShape
_launder_noUnwrap(x, reg) ==
    IF IsInt(x) THEN Fixed(x)
    ELSE IF IsStr(x) THEN lookup_type(x.sval, reg)
    ELSE Return(x)

_launder(x, reg) ==
    IF IsInt(x) THEN Fixed(x)
    ELSE IF IsStr(x) THEN lookup_type(x.sval, reg)
    ELSE IF x.tag = "DataShape" /\ Len(x._parameters.items) = 1
    THEN Return(x._parameters.items[1])
    ELSE Return(x)

\* map(_launder, parameters): the first element that raises ends the map
LaunderAll(xs, reg) ==
    LET rs == [i \in DOMAIN xs |-> _launder(xs[i], reg)]
        bad == {i \in DOMAIN xs : rs[i].st = "raise"}
    IN IF bad # {} THEN Throw(rs[Min(bad)].exc)
       ELSE Return([i \in DOMAIN xs |-> rs[i].val])

\* getattr(x, 'cls', default)
GetCls(x, default) ==
    CASE x.tag \in {"Fixed", "Var"} -> PyInt(DIMENSION)
      [] x.tag \in {"Date", "Time", "DateTime", "Bytes", "String", "CType",
                    "Record", "Tuple", "JSON"} -> PyInt(MEASURE)
      [] x.tag = "IntegerConstant" -> None
      [] OTHER -> PyInt(default)

\* bool(name) for the name keyword
Truthy(name) == name # None /\ name # PyStr("")

\* Checked binding the name before the kind checks
Checked_bindFirst(ps, name, reg) ==
    LET self == [tag |-> "DataShape", _parameters |-> PyTuple(ps),
                 name |-> IF Truthy(name) THEN name ELSE None]
        bound == IF Truthy(name) THEN Bind(reg, name.sval, self) ELSE reg
    IN IF GetCls(ps[Len(ps)], MEASURE) # PyInt(MEASURE) THEN Raise("TypeError", bound)
       ELSE IF \E i \in 1..(Len(ps) - 1) : GetCls(ps[i], DIMENSION) # PyInt(DIMENSION)
       THEN Raise("TypeError", bound)
       ELSE Ok(self, bound)

\* the kind checks and the registration under the name keyword
Checked(ps, name, reg) ==
    IF GetCls(ps[Len(ps)], MEASURE) # PyInt(MEASURE) THEN Raise("TypeError", reg)
    ELSE IF \E i \in 1..(Len(ps) - 1) : GetCls(ps[i], DIMENSION) # PyInt(DIMENSION)
    THEN Raise("TypeError", reg)
    ELSE LET self == [tag |-> "DataShape", _parameters |-> PyTuple(ps),
                      name |-> IF Truthy(name) THEN name ELSE None]
         IN Ok(self, IF Truthy(name) THEN Bind(reg, name.sval, self) ELSE reg)

\* DataShape without the test for an empty parameter list
DataShape_noArity(parameters, name, reg) ==
    IF Len(parameters) = 1 /\ IsStr(parameters[1]) THEN Raise("TypeError", reg)
    ELSE IF Len(parameters) = 0
    THEN Ok([tag |-> "DataShape", _parameters |-> PyTuple(<<>>), name |-> None], reg)
    ELSE LET l == LaunderAll(parameters, reg) IN
         IF l.st = "raise" THEN Raise(l.exc, reg) ELSE Checked(l.val, name, reg)

DataShape(parameters, name, reg) ==
    IF Len(parameters) = 1 /\ IsStr(parameters[1]) THEN Raise("TypeError", reg)
    ELSE IF Len(parameters) = 0 THEN Raise("ValueError", reg)
    ELSE LET l == LaunderAll(parameters, reg) IN
         IF l.st = "raise" THEN Raise(l.exc, reg) ELSE Checked(l.val, name, reg)

Option(ds, reg) ==
    LET r == _launder(ds, reg) IN
    IF r.st = "raise" THEN r ELSE Return([tag |-> "Option", ty |-> r.val])

Function(parameters) ==
    Return([tag |-> "Function", _parameters |-> PyTuple(parameters)])

\* Record keeping its fields in the order of their names, not of the input
Record_byName(fields, reg) ==
    LET fs == SelectSeq(fields.items, LAMBDA f : f.items[1] = PyStr("x")) \o
              SelectSeq(fields.items, LAMBDA f : f.items[1] # PyStr("x"))
        l == LaunderAll([i \in DOMAIN fs |-> fs[i].items[2]], reg)
    IN IF l.st = "raise" THEN l
       ELSE Return([tag |-> "Record", _parameters |->
                PyTuple(<<PyTuple([i \in DOMAIN fs |->
                            PyTuple(<<fs[i].items[1], l.val[i]>>)])>>)])

\* fields is a Python sequence of (name, type) pairs
Record(fields, reg) ==
    LET fs == fields.items
        l == LaunderAll([i \in DOMAIN fs |-> fs[i].items[2]], reg)
    IN IF l.st = "raise" THEN l
       ELSE Return([tag |-> "Record", _parameters |->
                PyTuple(<<PyTuple([i \in DOMAIN fs |->
                            PyTuple(<<fs[i].items[1], l.val[i]>>)])>>)])

\* dshapes is a Python sequence of datashapes
Tuple(dshapes, reg) ==
    LET ds == dshapes.items
        rs == [i \in DOMAIN ds |->
                 IF ds[i].tag = "DataShape" THEN Return(ds[i])
                 ELSE Outcome(DataShape(<<ds[i]>>, None, reg))]
        bad == {i \in DOMAIN ds : rs[i].st = "raise"}
    IN IF bad # {} THEN Throw(rs[Min(bad)].exc)
       ELSE Return([tag |-> "Tuple", dshapes |-> PyTuple([i \in DOMAIN ds |-> rs[i].val])])

(***************************************************************************)
(* Mono.parameters, equality and hashing.                                  *)
(***************************************************************************)
__slots__(tag) ==
    CASE tag = "Ellipsis" -> <<"typevar">>
      [] tag \in {"IntegerConstant", "StringConstant", "Fixed"} -> <<"val">>
      [] tag \in {"Date", "Bytes", "Var", "JSON"} -> <<>>
      [] tag \in {"Time", "DateTime"} -> <<"tz">>
      [] tag = "String" -> <<"fixlen", "encoding">>
      [] tag = "Option" -> <<"ty">>
      [] tag = "CType" -> <<"name", "_itemsize", "_alignment">>
      [] tag = "TypeVar" -> <<"symbol">>
      [] tag = "Tuple" -> <<"dshapes">>

HasSlots(tag) == tag \notin {"Null", "DataShape", "Function", "Record"}

parameters(x) ==
    IF HasSlots(x.tag)
    THEN PyTuple([i \in DOMAIN __slots__(x.tag) |-> x[__slots__(x.tag)[i]]])
    ELSE x._parameters

IsMono(x) == x.tag \notin {"None", "int", "str", "bool", "tuple", "list", "slice", "dtype"}

\* the outcome of ==: "T", "F", or "E" when __eq__ raises TypeError
TF(b) == IF b THEN "T" ELSE "F"

RECURSIVE Eq3(_, _), TupleEq3(_, _, _)

\* tuple comparison: element by element up to the first difference
TupleEq3(s, t, i) ==
    IF i > Len(s) \/ i > Len(t) THEN TF(Len(s) = Len(t))
    ELSE LET e == Eq3(s[i], t[i]) IN
         IF e = "T" THEN TupleEq3(s, t, i + 1) ELSE e

Eq3(a, b) ==
    CASE a.tag = "Fixed" ->
           IF b.tag = "Fixed" THEN TF(a.val = b.val)
           ELSE IF IsInt(b) THEN TF(a.val = b)
           ELSE "F"
      [] a.tag = "IntegerConstant" ->
           IF IsInt(b) THEN TF(a.val = b)
           ELSE IF b.tag = "IntegerConstant" THEN TF(a.val = b.val)
           ELSE "E"
      [] a.tag = "StringConstant" ->
           IF IsStr(b) THEN TF(a.val = b)
           ELSE IF b.tag = "StringConstant" THEN TF(a.val = b.val)
           ELSE "E"
      [] OTHER ->
           IF IsMono(a)
           THEN IF a.tag # b.tag THEN "F"
                ELSE TupleEq3(parameters(a).items, parameters(b).items, 1)
           ELSE IF IsMono(b) THEN Eq3(b, a)
           ELSE IF a.tag # b.tag THEN "F"
           ELSE IF a.tag = "tuple" THEN TupleEq3(a.items, b.items, 1)
           ELSE TF(a = b)

\* a == b
__eq__(a, b) ==
    LET e == Eq3(a, b) IN
    IF e = "E" THEN Throw("TypeError") ELSE Return(PyBool(e = "T"))

\* hash(x), as the term Python's hashing combines: equal terms, equal hashes
RECURSIVE __hash__(_)
__hash__(x) ==
    CASE x.tag = "int" -> [h |-> "int", n |-> x.ival]
      [] x.tag = "str" -> [h |-> "str", s |-> x.sval]
      [] x.tag = "None" -> [h |-> "None"]
      [] x.tag = "bool" -> [h |-> "int", n |-> IF x.bval THEN 1 ELSE 0]
      [] x.tag = "tuple" -> [h |-> "tuple", hs |-> [i \in DOMAIN x.items |-> __hash__(x.items[i])]]
      [] x.tag \in {"IntegerConstant", "StringConstant"} -> __hash__(x.val)
      [] OTHER -> [h |-> "tuple", hs |-> <<[h |-> "type", s |-> x.tag], __hash__(parameters(x))>>]

\* type(x)(*x.parameters)
Lift(r, reg) == IF r.st = "ok" THEN Ok(r.val, reg) ELSE Raise(r.exc, reg)

Construct(tag, args, reg) ==
    CASE tag = "Fixed" -> Lift(Fixed(args[1]), reg)
      [] tag = "Var" -> Lift(Var, reg)
      [] tag = "TypeVar" -> Lift(TypeVar(args[1]), reg)
      [] tag = "Ellipsis" -> Lift(Ellipsis(args[1]), reg)
      [] tag = "IntegerConstant" -> Lift(IntegerConstant(args[1]), reg)
      [] tag = "StringConstant" -> Lift(StringConstant(args[1]), reg)
      [] tag = "Null" -> Lift(Null, reg)
      [] tag = "Date" -> Lift(Date, reg)
      [] tag = "Bytes" -> Lift(Bytes, reg)
      [] tag = "JSON" -> Lift(JSON, reg)
      [] tag = "Time" -> Lift(Time(args[1]), reg)
      [] tag = "DateTime" -> Lift(DateTime(args[1]), reg)
      [] tag = "String" -> Lift(String(args[1], args[2]), reg)
      [] tag = "CType" -> CType(args[1], args[2], args[3], reg)
      [] tag = "Option" -> Lift(Option(args[1], reg), reg)
      [] tag = "Record" -> Lift(Record(args[1], reg), reg)
      [] tag = "Tuple" -> Lift(Tuple(args[1], reg), reg)
      [] tag = "Function" -> Lift(Function(args), reg)
      [] tag = "DataShape" -> DataShape(args, None, reg)

Reconstruct(x, reg) == Construct(x.tag, parameters(x).items, reg)

(***************************************************************************)
(* The registry after the module is imported: the module-level statements  *)
(* in order, each a CType(...) or a Type.register(...).  Sizes and         *)
(* alignments are those of a 64-bit build.                                 *)
(***************************************************************************)
C(name, size, align) == [k |-> "CType", name |-> name, size |-> size, align |-> align]
A(name, target) == [k |-> "alias", name |-> name, target |-> target]
R(name, node) == [k |-> "register", name |-> name, node |-> node]

ModuleStatements ==
    << C("bool", 1, 1), C("char", 1, 1),
       C("int8", 1, 1), C("int16", 2, 2), C("int32", 4, 4), C("int64", 8, 8),
       A("int", "int32"),
       C("uint8", 1, 1), C("uint16", 2, 2), C("uint32", 4, 4), C("uint64", 8, 8),
       C("float16", 2, 2), C("float32", 4, 4), C("float64", 8, 8),
       A("real", "float64"),
       C("complex[float32]", 8, 4), C("complex[float64]", 16, 8),
       A("complex64", "complex[float32]"), A("complex128", "complex[float64]"),
       R("date", Date.val), R("time", Time(None).val), R("datetime", DateTime(None).val),
       R("null", Null.val),
       A("intptr", "int64"), A("uintptr", "uint64"),
       C("void", 0, 1), C("object", 8, 8),
       A("float", "float32"), A("double", "float64"),
       R("bytes", Bytes.val),
       R("string", String(None, None).val) >>

RunStatement(st, reg) ==
    CASE st.k = "CType" -> CType(PyStr(st.name), PyInt(st.size), PyInt(st.align), reg).reg
      [] st.k = "alias" -> register(st.name, reg[st.target], reg).reg
      [] st.k = "register" -> register(st.name, st.node, reg).reg

RECURSIVE RunModule(_, _)
RunModule(i, reg) ==
    IF i > Len(ModuleStatements) THEN reg
    ELSE RunModule(i + 1, RunStatement(ModuleStatements[i], reg))

InitRegistry == RunModule(1, <<>>)

int32 == InitRegistry["int32"]
float32 == InitRegistry["float32"]
float64 == InitRegistry["float64"]
real == float64
date_ == Date.val
string == String(None, None).val
var == Var.val

(***************************************************************************)
(* Indices, and Python's indexing and slicing of a tuple.                  *)
(***************************************************************************)
PySlice(start, stop, step) ==
    [tag |-> "slice", start |-> start, stop |-> stop, step |-> step]
PyList(s) == [tag |-> "list", items |-> s]

\* s[i] for an integer i
TupleIndex(s, i) ==
    LET j == IF i < 0 THEN i + Len(s) ELSE i IN
    IF j < 0 \/ j >= Len(s) THEN Throw("IndexError") ELSE Return(s[j + 1])

\* a slice bound clamped to 0..n, as slice.indices does for a step above 0
Clamp(b, n, default) ==
    IF b = None THEN default
    ELSE IF b.ival < 0 THEN (IF b.ival + n < 0 THEN 0 ELSE b.ival + n)
    ELSE IF b.ival > n THEN n ELSE b.ival

\* s[index] for a slice index with no step or a step of 0 or more
TupleSlice(s, index) ==
    IF index.step = PyInt(0) THEN Throw("ValueError")
    ELSE LET step == IF index.step = None THEN 1 ELSE index.step.ival
             lo == Clamp(index.start, Len(s), 0)
             hi == Clamp(index.stop, Len(s), Len(s))
             n == Cardinality({i \in lo..(hi - 1) : (i - lo) % step = 0})
         IN Return([k \in 1..n |-> s[lo + (k - 1) * step + 1]])

\* int(ceil(a / b)) under true division
Ceil(a, b) == IF b > 0 THEN -((-a) \div b) ELSE -(a \div (-b))

(***************************************************************************)
(* Shape and measure, subarray, multiplication, subshape and sigform.      *)
(***************************************************************************)
\* predicates.isdimension
isdimension(x) == x.tag \in {"Fixed", "Var", "Ellipsis"}

RECURSIVE shape(_)
shape(x) ==
    CASE x.tag = "DataShape" ->
           Return(PyTuple(SubSeq(x._parameters.items, 1, Len(x._parameters.items) - 1)))
      [] x.tag = "Option" -> shape(x.ty)
      [] OTHER -> Return(PyTuple(<<>>))

measure(x) ==
    IF x.tag = "DataShape" THEN Return(x._parameters.items[Len(x._parameters.items)])
    ELSE Return(x)

\* an outcome followed by what is done with its value
Chain(r, F(_)) == IF r.st = "raise" THEN r ELSE F(r.val)

\* the first outcome of rs that raised, or the sequence of the values
AllOf(rs) ==
    LET bad == {i \in DOMAIN rs : rs[i].st = "raise"} IN
    IF bad # {} THEN Throw(rs[Min(bad)].exc)
    ELSE Return([i \in DOMAIN rs |-> rs[i].val])

\* DataShape.subarray for a DataShape, Mono.subarray for any other node
subarray(x, leading, reg) ==
    IF x.tag = "DataShape"
    THEN LET ps == x._parameters.items IN
         IF leading >= Len(ps) THEN Throw("IndexError")
         ELSE Outcome(DataShape(IF leading \in {Len(ps) - 1, -1} THEN <<ps[Len(ps)]>>
                                ELSE SubSeq(ps, Clamp(PyInt(leading), Len(ps), 0) + 1, Len(ps)),
                                None, reg))
    ELSE IF leading >= 1 THEN Throw("IndexError") ELSE Return(x)

\* Fixed(other) for an integer other, as __mul__ and __rmul__ coerce it
Coerce(other) == IF IsInt(other) THEN Fixed(other) ELSE Return(other)

\* DataShape.__rmul__: other * self
__rmul__(self, other, reg) ==
    Chain(Coerce(other),
          LAMBDA o : Outcome(DataShape(<<o>> \o self._parameters.items, None, reg)))

\* Mono.__mul__: self * other, for an other that is not a string
__mul__(self, other, reg) ==
    Chain(Coerce(other),
          LAMBDA o : IF o.tag = "DataShape" THEN __rmul__(o, self, reg)
                     ELSE Outcome(DataShape(<<self, o>>, None, reg)))

\* Record.names.index(name)
NamesIndex(fields, name) ==
    LET hits == {i \in DOMAIN fields : fields[i].items[1] = name} IN
    IF hits = {} THEN Throw("ValueError") ELSE Return(PyInt(Min(hits) - 1))

\* Record.__getitem__: dict(self.fields)[key], the last field of that name
Record__getitem__(rec, key) ==
    LET fields == rec._parameters.items[1].items
        hits == {i \in DOMAIN fields : fields[i].items[1] = key}
    IN IF hits = {} THEN Throw("KeyError")
       ELSE Return(fields[CHOOSE i \in hits : \A j \in hits : j <= i].items[2])

\* DataShape(Record(fields))
WrapRecord(fields, reg) ==
    Chain(Record(PyTuple(fields), reg),
          LAMBDA rec : Outcome(DataShape(<<rec>>, None, reg)))

\* the branch of _subshape for a slice index on a leading dimension, with
\* sub the outcome of self.subarray(1)
SliceShape(self, index, reg, sub) ==
    LET head == self._parameters.items[1] IN
    IF head.tag = "Fixed" \/ index.stop # None
    THEN LET start == IF index.start = None THEN 0 ELSE index.start.ival
             nostop == index.stop = None \/ index.stop = PyInt(0)
             stop == IF nostop THEN head.val.ival ELSE index.stop.ival
             count == IF index.step = None THEN stop - start
                      ELSE Ceil(stop - start, index.step.ival)
         IN IF nostop /\ head.tag # "Fixed" THEN Throw("TypeError")
            ELSE IF index.step = PyInt(0) THEN Throw("ZeroDivisionError")
            ELSE Chain(sub, LAMBDA s : __rmul__(s, PyInt(count), reg))
    ELSE Chain(sub, LAMBDA s : __mul__(var, s, reg))

\* the branches of _subshape, with sub the outcome of self.subarray(1)
RECURSIVE _subshape(_, _, _)
Branches(self, index, reg, sub) ==
    LET head == self._parameters.items[1] IN
    IF IsInt(index) /\ isdimension(head) THEN sub
    ELSE IF head.tag = "Record" /\ IsStr(index) THEN Record__getitem__(head, index)
    ELSE IF head.tag = "Record" /\ IsInt(index)
    THEN Chain(TupleIndex(head._parameters.items[1].items, index.ival),
               LAMBDA f : Return(f.items[2]))
    ELSE IF head.tag = "Record" /\ index.tag = "list"
    THEN Chain(Chain(AllOf([i \in DOMAIN index.items |->
                              IF IsStr(index.items[i])
                              THEN NamesIndex(head._parameters.items[1].items, index.items[i])
                              ELSE Return(index.items[i])]),
                     LAMBDA is : AllOf([i \in DOMAIN is |->
                          TupleIndex(head._parameters.items[1].items, is[i].ival)])),
               LAMBDA fs : WrapRecord(fs, reg))
    ELSE IF head.tag = "Record" /\ index.tag = "slice"
    THEN Chain(TupleSlice(head._parameters.items[1].items, index),
               LAMBDA fs : WrapRecord(fs, reg))
    ELSE IF index.tag = "list" /\ isdimension(head)
    THEN Chain(sub, LAMBDA s : __rmul__(s, PyInt(Len(index.items)), reg))
    ELSE IF index.tag = "slice" /\ isdimension(head) THEN SliceShape(self, index, reg, sub)
    ELSE IF index.tag = "tuple"
    THEN IF Len(index.items) = 1 THEN _subshape(self, index.items[1], reg)
         ELSE Chain(Chain(Chain(sub,
                    LAMBDA s : _subshape(s, PyTuple(SubSeq(index.items, 2, Len(index.items))),
                                         reg)),
                    LAMBDA inner : __mul__(head, inner, reg)),
                    LAMBDA whole : _subshape(whole, index.items[1], reg))
    ELSE Throw("NotImplementedError")

_subshape(self, index, reg) == Branches(self, index, reg, subarray(self, 1, reg))

\* DataShape.sigform for a DataShape, Mono.sigform for any other node
sigform(x, reg) ==
    IF x.tag # "DataShape" THEN Return(x)
    ELSE Chain(AllOf([n \in 1..(Len(x._parameters.items) - 1) |->
                        TypeVar(PyStr("i" \o ToString(n - 1)))]),
               LAMBDA newparams :
                  Outcome(DataShape(newparams \o
                            <<x._parameters.items[Len(x._parameters.items)]>>, None, reg)))

\* free: the type variables found through the parameters of the Mono nodes
\* that are not Unit nodes
RECURSIVE free(_), FreeAll(_)
FreeAll(xs) == IF xs = <<>> THEN <<>> ELSE free(Head(xs)) \o FreeAll(Tail(xs))

free(ds) ==
    IF ds.tag = "TypeVar" THEN <<ds>>
    ELSE IF /\ IsMono(ds)
            /\ ds.tag \notin {"Null", "IntegerConstant", "StringConstant", "Date", "Time",
                               "DateTime", "Bytes", "String", "CType", "Fixed", "Var"}
    THEN FreeAll(parameters(ds).items)
    ELSE <<>>

(***************************************************************************)
(* The bridge to NumPy.  A dtype is a value with the attributes the code   *)
(* reads: kind, name, itemsize, the unit of a datetime64 and the fields of *)
(* a structured dtype.                                                     *)
(***************************************************************************)
dtype(kind, name, itemsize, unit, fields) ==
    [tag |-> "dtype", kind |-> PyStr(kind), name |-> PyStr(name),
     itemsize |-> PyInt(itemsize), unit |-> unit, fields |-> fields]

\* the scalar type names np.dtype understands among the registered names
NumpyScalars ==
    [n \in {"bool", "int8", "int16", "int32", "int64", "uint8", "uint16", "uint32",
            "uint64", "float16", "float32", "float64", "complex64", "complex128",
            "void", "object"} |->
        CASE n = "bool" -> <<"b", 1>>
          [] n = "int8" -> <<"i", 1>>
          [] n = "int16" -> <<"i", 2>>
          [] n = "int32" -> <<"i", 4>>
          [] n = "int64" -> <<"i", 8>>
          [] n = "uint8" -> <<"u", 1>>
          [] n = "uint16" -> <<"u", 2>>
          [] n = "uint32" -> <<"u", 4>>
          [] n = "uint64" -> <<"u", 8>>
          [] n = "float16" -> <<"f", 2>>
          [] n = "float32" -> <<"f", 4>>
          [] n = "float64" -> <<"f", 8>>
          [] n = "complex64" -> <<"c", 8>>
          [] n = "complex128" -> <<"c", 16>>
          [] n = "void" -> <<"V", 0>>
          [] n = "object" -> <<"O", 8>>]

\* np.dtype(s) for a type name s
np_dtype(s) ==
    IF s \in DOMAIN NumpyScalars
    THEN Return(dtype(NumpyScalars[s][1], s, NumpyScalars[s][2], None, None))
    ELSE Throw("TypeError")

\* CType.to_numpy_dtype
CType_to_numpy_dtype(x) ==
    np_dtype(CASE x.name.sval = "complex[float32]" -> "complex64"
               [] x.name.sval = "complex[float64]" -> "complex128"
               [] OTHER -> x.name.sval)

\* String.to_numpy_dtype
String_to_numpy_dtype(x) ==
    IF x.fixlen # None /\ x.fixlen # PyInt(0)
    THEN IF x.encoding = PyStr("A")
         THEN Return(dtype("S", "string" \o ToString(8 * x.fixlen.ival), x.fixlen.ival,
                           None, None))
         ELSE Return(dtype("U", "unicode" \o ToString(32 * x.fixlen.ival),
                           4 * x.fixlen.ival, None, None))
    ELSE Return(dtype("O", "object", 8, None, None))

\* x.to_numpy_dtype() of Date, DateTime, String, CType and Record, and
\* to_numpy: a Record converts each field by to_numpy(typ.measure)[1]
RECURSIVE to_numpy_dtype(_), to_numpy(_)
to_numpy_dtype(x) ==
    CASE x.tag = "Date" -> Return(dtype("M", "datetime64[D]", 8, PyStr("D"), None))
      [] x.tag = "DateTime" -> Return(dtype("M", "datetime64[us]", 8, PyStr("us"), None))
      [] x.tag = "String" -> String_to_numpy_dtype(x)
      [] x.tag = "CType" -> CType_to_numpy_dtype(x)
      [] x.tag = "Record" ->
           LET fields == x._parameters.items[1].items IN
           Chain(AllOf([i \in DOMAIN fields |->
                          Chain(to_numpy(measure(fields[i].items[2]).val),
                                LAMBDA r : Return(r.items[2]))]),
                 LAMBDA ds :
                    IF \E i, j \in DOMAIN fields :
                          i # j /\ fields[i].items[1] = fields[j].items[1]
                    THEN Throw("ValueError")
                    ELSE Return(dtype("V", "void", 0, None,
                            PyTuple([i \in DOMAIN fields |->
                                        PyTuple(<<fields[i].items[1], ds[i]>>)]))))
      [] OTHER -> Throw("AttributeError")

to_numpy(ds) ==
    LET ps == IF ds.tag = "DataShape" THEN ds._parameters.items ELSE <<ds>> IN
    Chain(AllOf([i \in 1..(Len(ps) - 1) |->
                   CASE ps[i].tag = "IntegerConstant" -> Return(ps[i])
                     [] ps[i].tag = "Fixed" -> Return(ps[i].val)
                     [] ps[i].tag = "TypeVar" -> Return(PyInt(-1))
                     [] OTHER -> Throw("NotNumpyCompatible")]),
          LAMBDA sh :
             IF to_numpy_dtype(ps[Len(ps)]) = Throw("AttributeError")
             THEN Throw("NotNumpyCompatible")
             ELSE Chain(to_numpy_dtype(ps[Len(ps)]),
                        LAMBDA dt : Return(PyTuple(<<PyTuple(sh), dt>>))))

\* CType.from_numpy_dtype
CType_from_numpy_dtype(dt, reg) ==
    IF dt.name.sval \in DOMAIN reg THEN lookup_type(dt.name.sval, reg)
    ELSE IF dt.kind = PyStr("M")
    THEN IF dt.unit.sval \in {"D", "Y", "M", "W"} THEN Return(date_)
         ELSE Return(DateTime(None).val)
    ELSE IF dt.kind = PyStr("U") THEN String(PyInt(dt.itemsize.ival \div 4), PyStr("U32"))
    ELSE IF dt.kind = PyStr("S") THEN String(dt.itemsize, PyStr("ascii"))
    ELSE Throw("NotImplementedError")

\* the measure from_numpy makes of a dtype
MeasureOf(dt, reg) ==
    IF dt.kind = PyStr("S") THEN String(dt.itemsize, PyStr("A"))
    ELSE IF dt.kind = PyStr("U") THEN String(PyInt(dt.itemsize.ival \div 4), PyStr("U32"))
    ELSE IF dt.fields # None /\ dt.fields # PyTuple(<<>>)
    THEN Chain(AllOf([i \in DOMAIN dt.fields.items |->
                        CType_from_numpy_dtype(dt.fields.items[i].items[2], reg)]),
               LAMBDA fs : Record(PyTuple([i \in DOMAIN fs |->
                              PyTuple(<<dt.fields.items[i].items[1], fs[i]>>)]), reg))
    ELSE CType_from_numpy_dtype(dt, reg)

\* from_numpy for a dtype object dt and a tuple of integers shp
from_numpy(shp, dt, reg) ==
    Chain(MeasureOf(dt, reg),
          LAMBDA m : IF shp.items = <<>> THEN Return(m)
                     ELSE Chain(AllOf([i \in DOMAIN shp.items |-> Fixed(shp.items[i])]),
                                LAMBDA dims : Outcome(DataShape(dims \o <<m>>, None, reg))))

(***************************************************************************)
(* Calls.  A call names the operation, its positional arguments and the    *)
(* name keyword; ret is Idle between calls, Pending while a call is being  *)
(* made, and the outcome once it has returned or raised.                   *)
(***************************************************************************)
Call(op, args, name) == [op |-> op, args |-> args, name |-> name]
NoCall == Call("none", <<>>, None)
Idle == [st |-> "idle"]
Pending == [st |-> "pending"]

SeqsUpTo(S, n) == UNION {[1..k -> S] : k \in 0..n}

\* the call c made with registry reg
Eval(c, reg) ==
    CASE c.op = "register" -> register(c.args[1].sval, c.args[2], reg)
      [] c.op = "lookup_type" -> Lift(lookup_type(c.args[1].sval, reg), reg)
      [] c.op = "_launder" -> Lift(_launder(c.args[1], reg), reg)
      [] c.op = "__eq__" -> Lift(__eq__(c.args[1], c.args[2]), reg)
      [] c.op = "DataShape" -> DataShape(c.args, c.name, reg)
      [] OTHER -> Construct(c.op, c.args, reg)

\* the values the calls cs return with registry reg
Built(cs, reg) == {Eval(c, reg).val : c \in {d \in cs : Eval(d, reg).st = "ok"}}

(***************************************************************************)
(* Arguments the calls are drawn from.                                     *)
(***************************************************************************)
IntArgs == {PyInt(n) : n \in -1..MaxInt} \cup {PyInt(5)}
Fixed1 == Fixed(PyInt(1)).val
TypeVarA == TypeVar(PyStr("A")).val
IntegerConstant1 == IntegerConstant(PyInt(1)).val
OptionInt32 == Option(int32, InitRegistry).val
DataShape1 == DataShape(<<int32>>, None, InitRegistry).val
DataShape2 == DataShape(<<PyInt(MaxInt), int32>>, None, InitRegistry).val
RecordX == Record(PyTuple(<<PyTuple(<<PyStr("x"), int32>>)>>), InitRegistry).val

ShapeArgs ==
    IntArgs \cup {PyStr("int32"), PyStr("T")} \cup
    {var, Fixed1, TypeVarA, Ellipsis(None).val, int32, string, date_, OptionInt32,
     IntegerConstant1, DataShape1, DataShape2, RecordX}

EncArgs ==
    {PyStr(e) : e \in DOMAIN _canonical_string_encodings \cup {"latin1"}} \cup
    {StringConstant(PyStr("utf8")).val}
LenArgs == {PyInt(n) : n \in 0..MaxInt} \cup {IntegerConstant1}

FieldArgs ==
    {PyTuple(<<PyStr(k), v>>) : k \in {"x", "y"},
        v \in {PyStr("real"), PyStr("T"), PyInt(1), float64, DataShape1}}

UnitCalls ==
    {Call("Fixed", <<i>>, None) : i \in IntArgs \cup {Fixed1, PyStr("1")}} \cup
    {Call("TypeVar", <<x>>, None) : x \in {PyStr("A"), PyStr("a"), PyStr(""), PyInt(1)}} \cup
    {Call("Ellipsis", <<x>>, None) : x \in {None, TypeVarA, PyInt(1), Fixed1}} \cup
    {Call("IntegerConstant", <<x>>, None) : x \in {PyInt(1), PyStr("1")}} \cup
    {Call("StringConstant", <<x>>, None) : x \in {PyInt(1), PyStr("A")}} \cup
    {Call(op, <<>>, None) : op \in {"Null", "Date", "Bytes", "JSON", "Var"}} \cup
    {Call(op, <<tz>>, None) : op \in {"Time", "DateTime"}, tz \in {None, PyStr("UTC"), PyInt(0)}}

StringCalls ==
    {Call("String", <<f, e>>, None) :
        f \in {None} \cup LenArgs \cup EncArgs, e \in {None} \cup EncArgs}

CTypeCalls ==
    {Call("CType", <<PyStr(n), PyInt(4), PyInt(4)>>, None) : n \in {"T", "int32"}}

CompositeCalls ==
    {Call("Option", <<x>>, None) : x \in ShapeArgs \cup {PyStr("float32")}} \cup
    {Call("Record", <<PyTuple(fs)>>, None) : fs \in SeqsUpTo(FieldArgs, MaxLen)} \cup
    {Call("Tuple", <<PyTuple(ds)>>, None) :
        ds \in SeqsUpTo({int32, DataShape1, DataShape2, Fixed1, PyStr("int32")}, MaxLen)} \cup
    {Call("Function", ps, None) :
        ps \in SeqsUpTo({PyInt(1), Fixed1, int32, TypeVarA}, MaxLen)}

DataShapeCalls == {Call("DataShape", ps, None) : ps \in SeqsUpTo(ShapeArgs, MaxLen)}

LaunderCalls == {Call("_launder", <<x>>, None) : x \in ShapeArgs}

BuildCalls ==
    UnitCalls \cup StringCalls \cup CTypeCalls \cup CompositeCalls \cup
    DataShapeCalls \cup LaunderCalls

\* registries a run of the program reaches: after import, and with the name
\* T bound by a named DataShape of one or of two elements
Registries ==
    {InitRegistry,
     DataShape(<<int32>>, PyStr("T"), InitRegistry).reg,
     DataShape(<<PyInt(MaxInt), int32>>, PyStr("T"), InitRegistry).reg}

TypeVarB == TypeVar(PyStr("B")).val
Field(k, v) == PyTuple(<<PyStr(k), v>>)

\* the values of the outcomes rs that returned
Oks(rs) == {r.val : r \in {s \in rs : s.st = "ok"}}

\* the registries of Registries, and the one where T names a CType
AlgebraRegistries ==
    Registries \cup {CType(PyStr("T"), PyInt(4), PyInt(4), InitRegistry).reg}

RecordArgs ==
    {<<Field("name", string), Field("amount", int32), Field("id", int32)>>,
     <<Field("x", int32), Field("y", float64)>>,
     <<Field("x", date_), Field("y", DateTime(None).val)>>,
     <<Field("x", PyStr("T"))>>,
     <<Field("x", TypeVarA), Field("y", int32)>>,
     <<Field("x", Time(None).val)>>}

Records(reg) == Oks({Record(PyTuple(fs), reg) : fs \in RecordArgs})

Strings ==
    Oks({String(PyInt(n), PyStr(e)) : n \in 0..MaxLen, e \in {"A", "U8", "U16", "U32"}})

MeasureArgs ==
    {int32, float32, date_, DateTime(None).val, DateTime(PyStr("UTC")).val,
     Time(None).val, string, OptionInt32, TypeVarA, PyStr("T"), PyStr("complex64"),
     DataShape2, Option(DataShape2, InitRegistry).val} \cup Strings

\* the parameter lists of the datashapes, with recs the records
ShapeArgsOf(recs) ==
    {<<m>> : m \in MeasureArgs \cup recs} \cup
    {<<PyInt(MaxInt), m>> : m \in MeasureArgs \cup recs} \cup
    {<<d, m>> : d \in {var, TypeVarA, Ellipsis(None).val},
                m \in {int32, PyStr("T")} \cup recs} \cup
    {<<PyInt(5), PyInt(3), float32>>,
     <<PyInt(1), PyInt(2), PyInt(3), int32>>,
     <<PyInt(10), var, PyInt(10), int32>>,
     <<TypeVarA, TypeVarB, int32>>,
     <<TypeVarA, PyInt(MaxInt), TypeVarB>>}

ShapesOf(recs, reg) == Oks({DataShape(ps, None, reg) : ps \in ShapeArgsOf(recs)})

\* the nodes that are not datashapes
Monos ==
    {int32, float32, string, date_, var, Fixed1, TypeVarA, OptionInt32,
     Option(DataShape2, InitRegistry).val, Option(TypeVarA, InitRegistry).val,
     Ellipsis(None).val, Ellipsis(TypeVarA).val,
     Function(<<TypeVarA, int32, TypeVarB>>).val,
     Tuple(PyTuple(<<TypeVarA, int32>>), InitRegistry).val,
     Tuple(PyTuple(<<int32>>), InitRegistry).val}

SliceArgs ==
    {PySlice(a, b, c) :
        a \in {None} \cup {PyInt(n) : n \in 0..MaxInt},
        b \in {None, PyInt(5)} \cup {PyInt(n) : n \in 0..(MaxInt + 1)},
        c \in {None} \cup {PyInt(n) : n \in 1..MaxInt}}

IndexArgs ==
    {PyInt(n) : n \in {0, 1, 5}} \cup {PyStr(s) : s \in {"x", "amount", "z"}} \cup
    {PyList(ns) : ns \in
        {<<PyStr("name"), PyStr("id")>>, <<PyStr("id"), PyStr("name")>>,
         <<PyInt(0), PyInt(2)>>, <<PyInt(1), PyStr("x")>>, <<PyStr("y")>>,
         <<PyInt(1), PyInt(10), PyInt(15)>>, <<PyStr("z")>>}} \cup
    {PyTuple(is) : is \in
        {<<PyInt(0)>>, <<PySlice(None, None, PyInt(2))>>,
         <<PyInt(0), PyInt(0)>>, <<PyInt(0), PyInt(0), PyInt(0)>>,
         <<PyInt(0), PyInt(0), PyInt(0), PyInt(0)>>,
         <<PySlice(PyInt(0), PyInt(5), None), PySlice(PyInt(0), PyInt(3), None), PyInt(5)>>,
         <<PySlice(None, None, None), PyList(<<PyStr("name"), PyStr("id")>>)>>,
         <<PySlice(None, None, None), PyList(<<PyInt(0), PyInt(2)>>)>>,
         <<PyInt(0), PySlice(PyInt(1), None, None)>>,
         <<PySlice(PyInt(0), PyInt(2), PyInt(2)), PyStr("amount")>>,
         <<PyInt(0), PySlice(PyInt(1), PyInt(MaxInt), None)>>,
         <<PySlice(PyInt(1), None, None), PyInt(0)>>,
         <<PyInt(5), PyInt(0)>>}}

\* the (shape, dtype) pairs to_numpy makes of nodes, and a dtype with no
\* datashape
NumpyArgs(nodes) ==
    {v.items : v \in Oks({to_numpy(x) : x \in nodes})} \cup
    {<<PyTuple(<<PyInt(MaxInt)>>), dtype("V", "void", 0, None, None)>>}

\* the nodes: the datashapes shapes, the records recs and the other nodes
NodesOf(shapes, recs) == shapes \cup recs \cup Monos

\* the calls on the datashapes shapes and on the nodes
CallsOn(shapes, nodes) ==
    {Call(op, <<x>>, None) :
        op \in {"shape", "measure", "sigform", "to_numpy", "free"}, x \in nodes} \cup
    {Call("subarray", <<x, PyInt(k)>>, None) : x \in nodes, k \in -1..(MaxLen + 2)} \cup
    {Call("_subshape", <<x, i>>, None) : x \in shapes, i \in IndexArgs \cup SliceArgs} \cup
    {Call("from_numpy", a, None) : a \in NumpyArgs(nodes)}

AlgebraCalls(reg) ==
    CallsOn(ShapesOf(Records(reg), reg), NodesOf(ShapesOf(Records(reg), reg), Records(reg)))

(***************************************************************************)
(* The operations.  first records, for each name, the instance of the      *)
(* first successful Type.register call for it.                             *)
(***************************************************************************)
Returns(res) ==
    /\ ret = Pending
    /\ ret' = Outcome(res)
    /\ registry' = res.reg
    /\ UNCHANGED call

Registers(name, type, res) ==
    first' = IF res.st = "ok" /\ name \notin DOMAIN first
             THEN Bind(first, name, type) ELSE first

Call_register ==
    /\ call.op = "register"
    /\ LET res == register(call.args[1].sval, call.args[2], registry)
       IN Returns(res) /\ Registers(call.args[1].sval, call.args[2], res)

Call_lookup_type ==
    /\ call.op = "lookup_type"
    /\ Returns(Lift(lookup_type(call.args[1].sval, registry), registry))
    /\ UNCHANGED first

Call_CType ==
    /\ call.op = "CType"
    /\ LET res == CType(call.args[1], call.args[2], call.args[3], registry)
       IN Returns(res) /\ Registers(call.args[1].sval, res.reg[call.args[1].sval], res)

Call_DataShape ==
    /\ call.op = "DataShape"
    /\ Returns(DataShape(call.args, call.name, registry))
    /\ UNCHANGED first

Call_launder ==
    /\ call.op = "_launder"
    /\ Returns(Lift(_launder(call.args[1], registry), registry))
    /\ UNCHANGED first

Call_Option ==
    /\ call.op = "Option"
    /\ Returns(Lift(Option(call.args[1], registry), registry))
    /\ UNCHANGED first

Call_Record ==
    /\ call.op = "Record"
    /\ Returns(Lift(Record(call.args[1], registry), registry))
    /\ UNCHANGED first

Call_Tuple ==
    /\ call.op = "Tuple"
    /\ Returns(Lift(Tuple(call.args[1], registry), registry))
    /\ UNCHANGED first

Call_Function ==
    /\ call.op = "Function"
    /\ Returns(Lift(Function(call.args), registry))
    /\ UNCHANGED first

Call_String ==
    /\ call.op = "String"
    /\ Returns(Lift(String(call.args[1], call.args[2]), registry))
    /\ UNCHANGED first

Call_Fixed ==
    /\ call.op = "Fixed"
    /\ Returns(Lift(Fixed(call.args[1]), registry))
    /\ UNCHANGED first

Call_TypeVar ==
    /\ call.op = "TypeVar"
    /\ Returns(Lift(TypeVar(call.args[1]), registry))
    /\ UNCHANGED first

Call_Ellipsis ==
    /\ call.op = "Ellipsis"
    /\ Returns(Lift(Ellipsis(call.args[1]), registry))
    /\ UNCHANGED first

Call_Constant ==
    /\ call.op \in {"IntegerConstant", "StringConstant"}
    /\ Returns(Lift(IF call.op = "IntegerConstant" THEN IntegerConstant(call.args[1])
                    ELSE StringConstant(call.args[1]), registry))
    /\ UNCHANGED first

Call_Temporal ==
    /\ call.op \in {"Date", "Time", "DateTime"}
    /\ Returns(Lift(CASE call.op = "Date" -> Date
                      [] call.op = "Time" -> Time(call.args[1])
                      [] call.op = "DateTime" -> DateTime(call.args[1]), registry))
    /\ UNCHANGED first

Call_Nullary ==
    /\ call.op \in {"Null", "Bytes", "JSON", "Var"}
    /\ Returns(Lift(CASE call.op = "Null" -> Null
                      [] call.op = "Bytes" -> Bytes
                      [] call.op = "JSON" -> JSON
                      [] call.op = "Var" -> Var, registry))
    /\ UNCHANGED first

Call_eq ==
    /\ call.op = "__eq__"
    /\ Returns(Lift(__eq__(call.args[1], call.args[2]), registry))
    /\ UNCHANGED first

Call_shape ==
    /\ call.op = "shape"
    /\ Returns(Lift(shape(call.args[1]), registry))
    /\ UNCHANGED first

Call_measure ==
    /\ call.op = "measure"
    /\ Returns(Lift(measure(call.args[1]), registry))
    /\ UNCHANGED first

Call_subarray ==
    /\ call.op = "subarray"
    /\ Returns(Lift(subarray(call.args[1], call.args[2].ival, registry), registry))
    /\ UNCHANGED first

Call_subshape ==
    /\ call.op = "_subshape"
    /\ Returns(Lift(_subshape(call.args[1], call.args[2], registry), registry))
    /\ UNCHANGED first

Call_sigform ==
    /\ call.op = "sigform"
    /\ Returns(Lift(sigform(call.args[1], registry), registry))
    /\ UNCHANGED first

Call_to_numpy ==
    /\ call.op = "to_numpy"
    /\ Returns(Lift(to_numpy(call.args[1]), registry))
    /\ UNCHANGED first

Call_from_numpy ==
    /\ call.op = "from_numpy"
    /\ Returns(Lift(from_numpy(call.args[1], call.args[2], registry), registry))
    /\ UNCHANGED first

Call_free ==
    /\ call.op = "free"
    /\ Returns(Lift(Return(PyList(free(call.args[1]))), registry))
    /\ UNCHANGED first

\* a caller makes the next call, and drops the outcome of the last one
Invoke(calls) ==
    /\ call = NoCall
    /\ call' \in calls
    /\ ret' = Pending
    /\ UNCHANGED <<registry, first>>

Done ==
    /\ call # NoCall
    /\ ret # Pending
    /\ call' = NoCall
    /\ ret' = Idle
    /\ UNCHANGED <<registry, first>>

(***************************************************************************)
(* Spec: calls in sequence against the registry, from the imported module. *)
(***************************************************************************)
RegVals == {float32, var}

NamedArgs == {PyInt(1), PyStr("real"), int32}

RegistryCalls ==
    {Call("register", <<PyStr(n), t>>, None) : n \in {"T", "U", "int32"}, t \in RegVals} \cup
    {Call("lookup_type", <<PyStr(n)>>, None) : n \in {"T", "U", "V", "int32"}}

SessionCalls ==
    {Call("register", <<PyStr(n), t>>, None) : n \in {"T", "int32"}, t \in RegVals} \cup
    {Call("lookup_type", <<PyStr(n)>>, None) : n \in {"T", "V", "int32"}} \cup
    CTypeCalls \cup
    {Call("DataShape", ps, n) :
        ps \in SeqsUpTo(NamedArgs, MaxLen), n \in {None, PyStr("T"), PyStr("int32")}} \cup
    {Call("_launder", <<x>>, None) :
        x \in {PyInt(1), PyStr("T"), PyStr("int32"), PyStr("V"), int32, Fixed1,
               DataShape1, DataShape2}}

Init ==
    /\ registry = InitRegistry
    /\ first = InitRegistry
    /\ call = NoCall
    /\ ret = Idle

Next ==
    \/ Invoke(SessionCalls)
    \/ Call_register
    \/ Call_lookup_type
    \/ Call_CType
    \/ Call_DataShape
    \/ Call_launder
    \/ Done

Spec == Init /\ [][Next]_vars

(***************************************************************************)
(* SpecRegistry: sequences of Type.register and Type.lookup_type calls.    *)
(***************************************************************************)
NextRegistry ==
    \/ Invoke(RegistryCalls)
    \/ Call_register
    \/ Call_lookup_type
    \/ Done

SpecRegistry == Init /\ [][NextRegistry]_vars

(***************************************************************************)
(* SpecBuild: one constructor or laundering call, with a registry the      *)
(* program reaches.                                                        *)
(***************************************************************************)
InitBuild ==
    /\ registry \in Registries
    /\ first = InitRegistry
    /\ call \in BuildCalls
    /\ ret = Pending

NextBuild ==
    \/ Call_Fixed
    \/ Call_TypeVar
    \/ Call_Ellipsis
    \/ Call_Constant
    \/ Call_Temporal
    \/ Call_Nullary
    \/ Call_String
    \/ Call_CType
    \/ Call_Option
    \/ Call_Record
    \/ Call_Tuple
    \/ Call_Function
    \/ Call_DataShape
    \/ Call_launder

SpecBuild == InitBuild /\ [][NextBuild]_vars

(***************************************************************************)
(* SpecEq: one comparison a == b of two values the program builds.         *)
(***************************************************************************)
EqFieldArgs ==
    {PyTuple(<<PyStr(k), v>>) : k \in {"x", "y"}, v \in {PyStr("real"), float64, int32}}

EqBuildCalls ==
    UnitCalls \cup
    {Call("Function", ps, None) : ps \in SeqsUpTo({PyInt(1), Fixed1, int32}, MaxLen)} \cup
    {Call("Record", <<PyTuple(fs)>>, None) : fs \in SeqsUpTo(EqFieldArgs, MaxLen)} \cup
    {Call("DataShape", ps, None) : ps \in {<<int32>>, <<PyInt(1), int32>>, <<Fixed1, float64>>}}

EqPool ==
    {None, PyStr("A"), PyStr("1"), int32, string} \cup {PyInt(n) : n \in 0..MaxInt} \cup
    Built(EqBuildCalls, InitRegistry)

InitEq ==
    /\ registry = InitRegistry
    /\ first = InitRegistry
    /\ call \in {Call("__eq__", <<a, b>>, None) : a, b \in EqPool}
    /\ ret = Pending

NextEq == Call_eq

SpecEq == InitEq /\ [][NextEq]_vars

(***************************************************************************)
(* SpecAlgebra: one call of the shape algebra, of the bridge to NumPy or   *)
(* of free, on a datashape built with one of the registries.               *)
(***************************************************************************)
InitAlgebra ==
    /\ registry \in AlgebraRegistries
    /\ first = InitRegistry
    /\ call \in AlgebraCalls(registry)
    /\ ret = Pending

NextAlgebra ==
    \/ Call_shape
    \/ Call_measure
    \/ Call_subarray
    \/ Call_subshape
    \/ Call_sigform
    \/ Call_to_numpy
    \/ Call_from_numpy
    \/ Call_free

SpecAlgebra == InitAlgebra /\ [][NextAlgebra]_vars

(***************************************************************************)
(* SpecFailure: one constructor call, with or without the name keyword, or *)
(* one Type.register call, with one of the registries.                     *)
(***************************************************************************)
FailureCalls ==
    BuildCalls \cup
    {Call("DataShape", ps, PyStr(n)) :
        ps \in SeqsUpTo(NamedArgs, MaxLen), n \in {"T", "U", "int32"}} \cup
    {Call("register", <<PyStr(n), t>>, None) : n \in {"T", "U", "int32"}, t \in RegVals}

InitFailure ==
    /\ registry \in Registries
    /\ first = InitRegistry
    /\ call \in FailureCalls
    /\ ret = Pending

NextFailure == NextBuild \/ Call_register

SpecFailure == InitFailure /\ [][NextFailure]_vars

(***************************************************************************)
(* The claims.                                                             *)
(***************************************************************************)
Constructed(classes) == ret.st = "ok" /\ call.op \in classes

\* C1: every constructed node x of the node types Fixed, Var, TypeVar,
\* Ellipsis, CType, String, Date, Time, DateTime, Option, Record, Tuple,
\* Function and DataShape is rebuilt by type(x)(*x.parameters): the call
\* succeeds and returns a node equal to x.
C1_Reconstruction ==
    Constructed({"Fixed", "Var", "TypeVar", "Ellipsis", "CType", "String", "Date",
                 "Time", "DateTime", "Option", "Record", "Tuple", "Function",
                 "DataShape"}) =>
        LET r == Reconstruct(ret.val, registry)
        IN r.st = "ok" /\ Eq3(r.val, ret.val) = "T"

\* C2: whenever a is a type node and a == b is True, hash(a) equals hash(b).
C2_HashConsistent ==
    (call.op = "__eq__" /\ ret = Return(PyBool(TRUE)) /\ IsMono(call.args[1])) =>
        __hash__(call.args[1]) = __hash__(call.args[2])

\* C3: two Records are equal exactly when their laundered (name, type) field
\* sequences are equal element by element in the same order; the same
\* fields in another order give unequal Records.
Fields(cs, x) == {c.args[1].items : c \in {d \in cs : Eval(d, registry) = Ok(x, registry)}}
SameFields(fs, gs) ==
    /\ Len(fs) = Len(gs)
    /\ \A i \in DOMAIN fs :
          /\ fs[i].items[1] = gs[i].items[1]
          /\ Eq3(_launder(fs[i].items[2], registry).val,
                 _launder(gs[i].items[2], registry).val) = "T"

C3_RecordOrder ==
    (call.op = "__eq__" /\ ret # Pending /\ call.args[1].tag = "Record"
        /\ call.args[2].tag = "Record") =>
        LET cs == {c \in EqBuildCalls : c.op = "Record"} IN
        \A fs \in Fields(cs, call.args[1]), gs \in Fields(cs, call.args[2]) :
            ret = Return(PyBool(SameFields(fs, gs)))

C3_Witness ==
    /\ call.op = "__eq__"
    /\ ret = Return(PyBool(FALSE))
    /\ call.args[1].tag = "Record" /\ call.args[2].tag = "Record"
    /\ LET fs == call.args[1]._parameters.items[1].items
           gs == call.args[2]._parameters.items[1].items
       IN /\ Len(fs) = 2 /\ Len(gs) = 2
          /\ fs[1] = gs[2] /\ fs[2] = gs[1]
          /\ fs[1].items[1] # fs[2].items[1]

\* C4: after laundering, a Measure-kind node (CType, String, Date, Time,
\* DateTime, Bytes, Record, Tuple, JSON, Option of a measure) before the last
\* position, or a Dimension-kind node (Fixed, Var, Ellipsis) in the last
\* position, makes the DataShape constructor raise.
RECURSIVE MeasureKind(_)
MeasureKind(x) ==
    \/ x.tag \in {"CType", "String", "Date", "Time", "DateTime", "Bytes", "Record",
                  "Tuple", "JSON"}
    \/ x.tag = "Option" /\ MeasureKind(x.ty)
DimensionKind(x) == x.tag \in {"Fixed", "Var", "Ellipsis"}

C4_KindValidation ==
    (call.op = "DataShape" /\ ret # Pending) =>
        LET l == LaunderAll(call.args, registry) IN
        (/\ l.st = "ok"
         /\ Len(l.val) >= 1
         /\ \/ \E i \in 1..(Len(l.val) - 1) : MeasureKind(l.val[i])
            \/ DimensionKind(l.val[Len(l.val)])) => ret.st = "raise"

C6_DuplicateName ==
    [][(call.op = "DataShape" /\ ret = Pending /\ Truthy(call.name)
            /\ call.name.sval \in DOMAIN registry) =>
        (ret'.st = "raise" /\ registry' = registry)]_vars

\* C7: over sequences of Type.register and Type.lookup_type calls, register
\* raises when the name is bound and binds it otherwise, leaving every other
\* binding alone; lookup_type raises when the name is unbound and otherwise
\* returns the instance of the first successful register for the name.
C7_RegistryContract ==
    [][/\ (call.op = "register" /\ ret = Pending) =>
            LET n == call.args[1].sval IN
            IF n \in DOMAIN registry
            THEN ret'.st = "raise" /\ registry' = registry
            ELSE /\ ret'.st = "ok"
                 /\ DOMAIN registry' = DOMAIN registry \cup {n}
                 /\ registry'[n] = call.args[2]
                 /\ \A m \in DOMAIN registry : registry'[m] = registry[m]
       /\ (call.op = "lookup_type" /\ ret = Pending) =>
            LET n == call.args[1].sval IN
            /\ registry' = registry
            /\ IF n \in DOMAIN registry THEN ret' = Return(first[n])
               ELSE ret'.st = "raise"]_vars

C7_Witness ==
    /\ call.op = "register"
    /\ ret.st = "raise"
    /\ call.args[1] = PyStr("T")
    /\ registry["T"] # call.args[2]
    /\ registry["T"] = first["T"]

\* C8: if _launder(x) succeeds, then _launder(_launder(x)) returns the same
\* node, in every registry the program reaches.
C8_LaunderIdempotent ==
    (call.op = "_launder" /\ ret.st = "ok") => _launder(ret.val, registry) = Return(ret.val)

\* C9: DataShape parameters, Record field types and the type an Option wraps
\* are laundered: an integer n becomes Fixed(n), a string becomes the
\* registry entry of that name (the call raises if there is none), a
\* one-element DataShape becomes its sole element, any other node is kept;
\* DataShape(5, 'int32') has parameters (Fixed(5), int32),
\* Record([('x', 'real')]) == Record([('x', real)]), Option('float32').ty is
\* float32.
LaunderedAs(x, y) ==
    /\ IsInt(x) => y = [tag |-> "Fixed", val |-> x]
    /\ IsStr(x) => x.sval \in DOMAIN registry /\ y = registry[x.sval]
    /\ (x.tag = "DataShape" /\ Len(x._parameters.items) = 1) => y = x._parameters.items[1]
    /\ (~IsInt(x) /\ ~IsStr(x) /\ ~(x.tag = "DataShape" /\ Len(x._parameters.items) = 1))
          => y = x
Unregistered(x) == IsStr(x) /\ x.sval \notin DOMAIN registry

C9_LaunderedChildren ==
    /\ (call.op = "DataShape" /\ ret # Pending) =>
          /\ (\E i \in DOMAIN call.args : Unregistered(call.args[i])) => ret.st = "raise"
          /\ ret.st = "ok" =>
                /\ Len(ret.val._parameters.items) = Len(call.args)
                /\ \A i \in DOMAIN call.args :
                      LaunderedAs(call.args[i], ret.val._parameters.items[i])
    /\ (call.op = "Record" /\ ret # Pending) =>
          LET fs == call.args[1].items IN
          /\ (\E i \in DOMAIN fs : Unregistered(fs[i].items[2])) => ret.st = "raise"
          /\ ret.st = "ok" =>
                LET gs == ret.val._parameters.items[1].items IN
                /\ Len(gs) = Len(fs)
                /\ \A i \in DOMAIN fs :
                      /\ gs[i].items[1] = fs[i].items[1]
                      /\ LaunderedAs(fs[i].items[2], gs[i].items[2])
    /\ (call.op = "Option" /\ ret # Pending) =>
          /\ Unregistered(call.args[1]) => ret.st = "raise"
          /\ ret.st = "ok" => LaunderedAs(call.args[1], ret.val.ty)
    /\ (call = Call("DataShape", <<PyInt(5), PyStr("int32")>>, None) /\ ret # Pending) =>
          /\ ret.st = "ok"
          /\ parameters(ret.val) = PyTuple(<<[tag |-> "Fixed", val |-> PyInt(5)], int32>>)
    /\ (call = Call("Record", <<PyTuple(<<PyTuple(<<PyStr("x"), PyStr("real")>>)>>)>>, None)
            /\ ret # Pending) =>
          /\ ret.st = "ok"
          /\ __eq__(ret.val, Record(PyTuple(<<PyTuple(<<PyStr("x"), real>>)>>), registry).val)
                = Return(PyBool(TRUE))
    /\ (call = Call("Option", <<PyStr("float32")>>, None) /\ ret # Pending) =>
          ret.st = "ok" /\ ret.val.ty = float32

C9_Witness ==
    /\ call = Call("DataShape", <<PyInt(5), PyStr("int32")>>, None)
    /\ ret.st = "ok"
    /\ ret.val._parameters.items[1].tag = "Fixed"

\* C10: for a fixed length n or no length, and spellings e1, e2 of one
\* canonical tag, String(n, e1) == String(n, e2) and the stored encoding is one
\* of A, U8, U16, U32; an encoding outside the table makes String raise.
C10_EncodingCanonical ==
    (/\ call.op = "String" /\ ret # Pending
     /\ call.args[1] = None \/ IsInt(call.args[1])
     /\ IsStr(call.args[2])) =>
        LET n == call.args[1]
            e == call.args[2].sval
        IN IF e \in DOMAIN _canonical_string_encodings
           THEN /\ ret.st = "ok"
                /\ ret.val.encoding \in {PyStr("A"), PyStr("U8"), PyStr("U16"), PyStr("U32")}
                /\ \A e2 \in DOMAIN _canonical_string_encodings :
                      _canonical_string_encodings[e2] = _canonical_string_encodings[e] =>
                         /\ String(n, PyStr(e2)).st = "ok"
                         /\ __eq__(ret.val, String(n, PyStr(e2)).val) = Return(PyBool(TRUE))
           ELSE ret.st = "raise"


\* the call of op has returned or raised
Called(op) == call.op = op /\ ret # Pending

\* C11: for every DataShape ds, ds.shape is all its parameters but the last
\* and ds.measure is its last parameter; for every other unit or measure
\* node m, m.shape is () and m.measure is m; the measure of a one-element
\* DataShape has shape ().
C11_ShapeMeasure ==
    LET x == call.args[1]
        ps == x._parameters.items
    IN /\ Called("shape") =>
            ret = Return(PyTuple(IF x.tag = "DataShape" THEN SubSeq(ps, 1, Len(ps) - 1)
                                 ELSE <<>>))
       /\ Called("measure") =>
            /\ ret = Return(IF x.tag = "DataShape" THEN ps[Len(ps)] ELSE x)
            /\ (x.tag = "DataShape" /\ Len(ps) = 1) =>
                  shape(ret.val) = Return(PyTuple(<<>>))

\* C12: for a DataShape ds with d leading dimensions and 0 <= k <= d,
\* ds.subarray(k) is the DataShape made of the parameters of ds from
\* position k on, and for k > d it raises IndexError; for any other node m,
\* m.subarray(0) is m and m.subarray(k) raises IndexError for k >= 1.
C12_SubarrayBounds ==
    (Called("subarray") /\ call.args[2].ival >= 0) =>
        LET x == call.args[1]
            k == call.args[2].ival
            ps == x._parameters.items
        IN IF x.tag # "DataShape"
           THEN ret = IF k = 0 THEN Return(x) ELSE Throw("IndexError")
           ELSE IF k > Len(ps) - 1 THEN ret = Throw("IndexError")
           ELSE /\ ret.st = "ok"
                /\ ret.val.tag = "DataShape"
                /\ TupleEq3(ret.val._parameters.items, SubSeq(ps, k + 1, Len(ps)), 1) = "T"

\* C13: subshape with a slice on a leading dimension Fixed(n) or Var: when
\* the dimension is Fixed(n) or the slice has a stop, the result is
\* Fixed(count) * ds.subarray(1), with start = index.start or 0,
\* stop = index.stop or n, count = stop - start, replaced by
\* ceil(count / step) when a step is given; when the dimension is Var and the
\* slice has no stop, the result is var * ds.subarray(1).
C13_SliceSubshape ==
    (/\ Called("_subshape") /\ call.args[2].tag = "slice"
     /\ call.args[1]._parameters.items[1].tag \in {"Fixed", "Var"}) =>
        LET ps == call.args[1]._parameters.items
            index == call.args[2]
            start == IF index.start = None THEN 0 ELSE index.start.ival
            stop == IF ps[1].tag = "Fixed" /\ index.stop \in {None, PyInt(0)}
                    THEN ps[1].val.ival ELSE index.stop.ival
            count == IF index.step = None THEN stop - start
                     ELSE Ceil(stop - start, index.step.ival)
        IN /\ ret.st = "ok"
           /\ ret.val.tag = "DataShape"
           /\ IF ps[1].tag = "Fixed" \/ index.stop # None
              THEN /\ Fixed(PyInt(count)).st = "ok"
                   /\ ret.val._parameters.items = <<Fixed(PyInt(count)).val>> \o Tail(ps)
              ELSE ret.val._parameters.items = <<var>> \o Tail(ps)

\* C14: for a DataShape ds and a tuple index (i0, ..., ik) with k >= 1,
\* ds.subshape[(i0, ..., ik)] is the shape
\* ds[0] * ds.subarray(1).subshape[(i1, ..., ik)] indexed by i0; a tuple (i0,)
\* gives what i0 gives; on Fixed and Var dimensions a tuple of integers no
\* longer than the dimensions drops one axis for each; 10 * var * 10 * int32 indexed by [0:5, 0:3, 5]
\* gives 5 * 3 * int32; a tuple of integers with more entries than ds has
\* dimensions raises IndexError.
C14_MultiAxis ==
    (Called("_subshape") /\ call.args[2].tag = "tuple") =>
        LET x == call.args[1]
            ps == x._parameters.items
            is == call.args[2].items
            sub == subarray(x, 1, registry)
            inner == _subshape(sub.val, PyTuple(Tail(is)), registry)
            whole == __mul__(ps[1], inner.val, registry)
        IN /\ Len(is) = 1 => ret = _subshape(x, is[1], registry)
           /\ (Len(is) > 1 /\ sub.st = "ok" /\ inner.st = "ok" /\ whole.st = "ok") =>
                 ret = _subshape(whole.val, is[1], registry)
           /\ (/\ \A i \in DOMAIN is : IsInt(is[i])
               /\ \A i \in 1..(Len(ps) - 1) : ps[i].tag \in {"Fixed", "Var"}) =>
                 IF Len(is) > Len(ps) - 1 THEN ret = Throw("IndexError")
                 ELSE /\ ret.st = "ok"
                      /\ ret.val.tag = "DataShape"
                      /\ TupleEq3(ret.val._parameters.items,
                                  SubSeq(ps, Len(is) + 1, Len(ps)), 1) = "T"
           /\ (/\ ps = <<Fixed(PyInt(10)).val, var, Fixed(PyInt(10)).val, int32>>
               /\ is = <<PySlice(PyInt(0), PyInt(5), None), PySlice(PyInt(0), PyInt(3), None),
                         PyInt(5)>>) =>
                 /\ ret.st = "ok"
                 /\ ret.val._parameters.items =
                       <<Fixed(PyInt(5)).val, Fixed(PyInt(3)).val, int32>>

\* the fields at the positions a list index names, names taken as the
\* position of the first field of that name
Requested(fields, index) ==
    [i \in DOMAIN index |->
        IF IsStr(index[i]) THEN fields[NamesIndex(fields, index[i]).val.ival + 1]
        ELSE fields[index[i].ival + 1]]

\* the projections of a DataShape whose first parameter is a Record
ProjectsRecord ==
    (Called("_subshape") /\ call.args[1]._parameters.items[1].tag = "Record") =>
        LET index == call.args[2]
            fields == call.args[1]._parameters.items[1]._parameters.items[1].items
            names == {fields[i].items[1] : i \in DOMAIN fields}
            Wraps(fs) == /\ ret.st = "ok"
                         /\ ret.val.tag = "DataShape"
                         /\ Len(ret.val._parameters.items) = 1
                         /\ ret.val._parameters.items[1].tag = "Record"
                         /\ ret.val._parameters.items[1]._parameters.items[1].items = fs
        IN /\ (IsStr(index) /\ index \in names) =>
                 \E i \in DOMAIN fields :
                    fields[i].items[1] = index /\ ret = Return(fields[i].items[2])
           /\ (IsInt(index) /\ index.ival \in 0..(Len(fields) - 1)) =>
                 ret = Return(fields[index.ival + 1].items[2])
           /\ (/\ index.tag = "list"
               /\ \A i \in DOMAIN index.items :
                     \/ IsStr(index.items[i]) /\ index.items[i] \in names
                     \/ IsInt(index.items[i]) /\ index.items[i].ival \in 0..(Len(fields) - 1)) =>
                 Wraps(Requested(fields, index.items))
           /\ (index.tag = "slice" /\ index.step # PyInt(0)) =>
                 Wraps(TupleSlice(fields, index).val)

\* the projections of var * record
ProjectsVarRecord ==
    (/\ Called("_subshape")
     /\ Len(call.args[1]._parameters.items) = 2
     /\ call.args[1]._parameters.items[1].tag = "Var"
     /\ call.args[1]._parameters.items[2].tag = "Record") =>
        LET index == call.args[2]
            rec == call.args[1]._parameters.items[2]
            fields == rec._parameters.items[1].items
        IN /\ index = PyInt(0) => ret = Return(rec)
           /\ (/\ index = PyTuple(<<PySlice(None, None, None),
                                   PyList(<<PyStr("name"), PyStr("id")>>)>>)
               /\ {PyStr("name"), PyStr("id")} \subseteq
                     {fields[i].items[1] : i \in DOMAIN fields}) =>
                 /\ ret.st = "ok"
                 /\ ret.val.tag = "DataShape"
                 /\ Len(ret.val._parameters.items) = 2
                 /\ ret.val._parameters.items[1] = var
                 /\ ret.val._parameters.items[2]._parameters.items[1].items =
                       Requested(fields, <<PyStr("name"), PyStr("id")>>)

\* C15: on a DataShape whose first parameter is a Record, a string index
\* returns the type of the field of that name, an integer index i the type
\* of the i-th field, a list of names and positions a DataShape wrapping the
\* Record of the requested fields in the requested order, a slice a
\* DataShape wrapping the Record of the sliced fields; on var * record, the
\* index 0 yields the record itself and [:, [names]] yields var * the
\* projected record.
C15_RecordProjection == ProjectsRecord /\ ProjectsVarRecord

\* C16: for every DataShape ds with d >= 1 leading dimensions, ds.sigform()
\* succeeds and returns a DataShape of the same length whose first d
\* parameters are the type variables I0, I1, ... by position and whose last
\* parameter is the measure of ds; for any other node sigform returns the
\* node itself.
C16_Sigform ==
    Called("sigform") =>
        LET x == call.args[1]
            ps == x._parameters.items
        IN IF x.tag # "DataShape" THEN ret = Return(x)
           ELSE Len(ps) >= 2 =>
                   /\ ret.st = "ok"
                   /\ ret.val.tag = "DataShape"
                   /\ Len(ret.val._parameters.items) = Len(ps)
                   /\ ret.val._parameters.items[Len(ps)] = ps[Len(ps)]
                   /\ \A n \in 1..(Len(ps) - 1) :
                         /\ ret.val._parameters.items[n].tag = "TypeVar"
                         /\ ret.val._parameters.items[n].symbol =
                               PyStr("I" \o ToString(n - 1))

\* C17: for a DataShape ds, to_numpy(ds) returns a shape with one entry for
\* each leading dimension, in order: n for Fixed(n), the value of an
\* IntegerConstant, -1 for a TypeVar; when a leading dimension is of another
\* kind or the measure has no numpy conversion it raises NotNumpyCompatible.
C17_ToNumpyDims ==
    (Called("to_numpy") /\ call.args[1].tag = "DataShape") =>
        LET ps == call.args[1]._parameters.items
            d == Len(ps) - 1
        IN IF /\ \A i \in 1..d : ps[i].tag \in {"Fixed", "IntegerConstant", "TypeVar"}
              /\ to_numpy_dtype(ps[d + 1]).st = "ok"
           THEN /\ ret.st = "ok"
                /\ ret.val.items[1].items =
                      [i \in 1..d |-> IF ps[i].tag = "TypeVar" THEN PyInt(-1) ELSE ps[i].val]
           ELSE ret = Throw("NotNumpyCompatible")

\* a registered scalar CType, Date or DateTime
ScalarMeasure(m) ==
    \/ m.tag \in {"Date", "DateTime"}
    \/ m.tag = "CType" /\ m.name.sval \in DOMAIN registry /\ registry[m.name.sval] = m

\* C18: for every DataShape ds of one or more leading dimensions, all Fixed, and
\* whose measure is a registered scalar CType, Date, DateTime, a flat Record
\* of such measures, or a fixed-length String in the encoding A, U8, U16 or
\* U32, from_numpy(*to_numpy(ds)) == ds.
C18_RoundTrip ==
    LET ds == call.args[1]
        ps == ds._parameters.items
        m == ps[Len(ps)]
        back == from_numpy(ret.val.items[1], ret.val.items[2], registry)
    IN (/\ Called("to_numpy") /\ ds.tag = "DataShape" /\ Len(ps) >= 2
        /\ \A i \in 1..(Len(ps) - 1) : ps[i].tag = "Fixed"
        /\ \/ ScalarMeasure(m)
           \/ m.tag = "String" /\ m.fixlen # None
           \/ /\ m.tag = "Record"
              /\ \A i \in DOMAIN m._parameters.items[1].items :
                    ScalarMeasure(m._parameters.items[1].items[i].items[2])) =>
          /\ ret.st = "ok"
          /\ back.st = "ok"
          /\ Eq3(back.val, ds) = "T"

\* the type variables in the type graph of x, from left to right
RECURSIVE TypeVarsOf(_), TypeVarsIn(_)
TypeVarsIn(xs) == IF xs = <<>> THEN <<>> ELSE TypeVarsOf(Head(xs)) \o TypeVarsIn(Tail(xs))

TypeVarsOf(x) ==
    CASE x.tag = "TypeVar" -> <<x>>
      [] x.tag \in {"DataShape", "Function"} -> TypeVarsIn(x._parameters.items)
      [] x.tag = "Option" -> TypeVarsOf(x.ty)
      [] x.tag = "Ellipsis" -> IF x.typevar = None THEN <<>> ELSE TypeVarsOf(x.typevar)
      [] x.tag = "Record" ->
           TypeVarsIn([i \in DOMAIN x._parameters.items[1].items |->
                          x._parameters.items[1].items[i].items[2]])
      [] x.tag = "Tuple" -> TypeVarsIn(x.dshapes.items)
      [] OTHER -> <<>>

\* C19: free(ds) returns every TypeVar of the type graph of ds from left to
\* right: dimensions and measure of a DataShape, inside an Option, the
\* typevar of an Ellipsis, argument and return types of a Function, field
\* types of a Record and element types of a Tuple; the empty list when ds
\* holds no TypeVar.
C19_Free == Called("free") => ret = Return(PyList(TypeVarsOf(call.args[1])))

\* C20: a constructor call (CType, DataShape with or without a name, Record,
\* Option, String, Fixed, TypeVar) or a Type.register call that raises
\* leaves the registry as it was before the call; a named DataShape whose
\* kind validation fails is not registered under its name.
C20_NoSideEffect ==
    [][(/\ ret = Pending
        /\ call.op \in {"CType", "DataShape", "Record", "Option", "String", "Fixed",
                        "TypeVar", "register"}
        /\ ret'.st = "raise") => registry' = registry]_vars

C20_Witness ==
    /\ call = Call("DataShape", <<int32, int32>>, PyStr("U"))
    /\ ret = Throw("TypeError")
    /\ "U" \notin DOMAIN registry

\* C21: for a DataShape whose leading dimension is Fixed(n), subshape with
\* an integer index i >= n, alone or as the first entry of a tuple index,
\* raises IndexError.
C21_IndexOutOfRange ==
    (/\ Called("_subshape")
     /\ call.args[1]._parameters.items[1].tag = "Fixed"
     /\ LET i == IF call.args[2].tag = "tuple" THEN call.args[2].items[1] ELSE call.args[2]
        IN IsInt(i) /\ i.ival >= call.args[1]._parameters.items[1].val.ival) =>
        ret = Throw("IndexError")

\* C22: for a DataShape with leading dimension Fixed(n) and a slice with
\* 0 <= start <= stop <= n and step >= 1, bounds explicit or absent (an
\* absent start is 0, an absent stop is n), subshape succeeds and the leading
\* dimension of the result is Fixed(c), c the length of
\* range(start, stop, step).
C22_SliceCount ==
    (/\ Called("_subshape") /\ call.args[2].tag = "slice"
     /\ call.args[1]._parameters.items[1].tag = "Fixed") =>
        LET n == call.args[1]._parameters.items[1].val.ival
            index == call.args[2]
            start == IF index.start = None THEN 0 ELSE index.start.ival
            stop == IF index.stop = None THEN n ELSE index.stop.ival
            step == IF index.step = None THEN 1 ELSE index.step.ival
            c == Cardinality({i \in start..(stop - 1) : (i - start) % step = 0})
        IN (0 <= start /\ start <= stop /\ stop <= n /\ step >= 1) =>
              /\ ret.st = "ok"
              /\ ret.val.tag = "DataShape"
              /\ ret.val._parameters.items[1] = Fixed(PyInt(c)).val

====
